---- MODULE Spec2Model ----
(***************************************************************************)
(* Model of the recommendation scoring and ranking engine of              *)
(* fastapi_service/core/ai_agents.py (class RecommendationEngine), of the *)
(* orchestrator that calls it (AIAgentOrchestrator, with the privacy      *)
(* guardian, the learning-path and the implementation-guide agents) and   *)
(* of the /stream event generator of fastapi_service/routers/             *)
(* recommendations.py.                                                     *)
(*                                                                         *)
(* Numbers.  Python floats are modelled as exact rationals in fixed       *)
(* point.  A factor (similarity, skill match, domain relevance, tool      *)
(* compatibility) is an integer number of 1/One; a relevance score or a   *)
(* confidence is an integer number of 1/ScoreOne, where                   *)
(* ScoreOne = One * WeightOne and the weights 0.3 / 0.25 / 0.25 / 0.2 are *)
(* integers out of WeightOne.  productivity_score is in hundredths and    *)
(* user_rating in tenths.                                                 *)
(*                                                                         *)
(* Text.  A string whose characters matter (work_domain, category,        *)
(* use_cases, the text returned by the LLM) is a sequence of one-character*)
(* strings.                                                                *)
(***************************************************************************)
EXTENDS Integers, Sequences, FiniteSets, TLC

VARIABLES
    user_context,     \* the UserContext argument
    pattern_insights, \* the pattern_insights argument
    available_tools,  \* the available_tools argument, when it is a list
    tools_iterable,   \* FALSE: available_tools is not iterable (e.g. None)
    user_embed_ok,    \* FALSE: embedding_model.encode(user_profile) raises
    tool_embed,       \* per tool: what encode(tool_profile) and the cosine give
    llm_reply,        \* per tool: what client.messages.create gives for its prompt
    cancel_at,        \* position of the tool whose text-generation call is
                      \* cancelled while in flight; 0: no cancellation
    call_no,          \* 1 in the first call, 2 in a repeated call
    previous_result,  \* what the first call returned, once it is repeated
    pc,               \* position in generate_recommendations
    user_profile,     \* the text given to embedding_model.encode for the user
    encode_calls,     \* what embedding_model.encode was called on, in order
    user_embedding,   \* the local user_embedding: the encode call it came from
    factors,          \* per scored tool: the four terms of its relevance
    idx,              \* position of the for loop in available_tools
    recommendations,  \* the local list of Recommendation built by the loop
    llm_calls,        \* tool ids for which client.messages.create was invoked
    result,           \* the list returned to the caller
    outcome,          \* "running", "returned", "raised" or "cancelled"
    \* analyze_user_and_recommend
    original_context,      \* the caller's UserContext object
    o_pc,                  \* position in analyze_user_and_recommend
    sanitized_context,     \* the local sanitized_context
    pattern_task,          \* the analyze_patterns coroutine given to gather
    discovery_task,        \* the discover_relevant_tools coroutine given to gather
    agent_log,             \* the agent calls made, each with the context it got
    learning_paths,        \* the list built by create_learning_paths
    implementation_guides, \* the list built by generate_guides
    \* event_generator of the /stream endpoint
    s_pc,                  \* where the generator is (suspended at a yield or await)
    agent_stream,          \* the LogEntry events astream_log has yet to yield
    final_state,           \* what devops_agent_engine.ainvoke answers
    client_connected,      \* FALSE once the client has gone
    disconnect_detected,   \* is_disconnected() was seen True in the event loop
    events,                \* the server-sent events yielded so far
    full_agent_reply,      \* the local full_agent_reply
    all_tool_calls,        \* the local all_tool_calls
    error_message,         \* the local error_message ("None" until set)
    agent_invocations,     \* the calls made on devops_agent_engine
    scheduled_tasks        \* what background_tasks.add_task was given

\* the arguments of the call and what the collaborators answer
inputs == <<user_context, pattern_insights, available_tools, tools_iterable,
            user_embed_ok, tool_embed, llm_reply, cancel_at>>

\* the state of analyze_user_and_recommend
orchestrator == <<original_context, o_pc, sanitized_context, pattern_task,
                  discovery_task, agent_log, learning_paths,
                  implementation_guides>>

\* the state of event_generator and of its client
stream == <<s_pc, agent_stream, final_state, client_connected,
            disconnect_detected, events, full_agent_reply, all_tool_calls,
            error_message, agent_invocations, scheduled_tasks>>

vars == <<inputs, call_no, previous_result, pc, user_profile, encode_calls,
          user_embedding, factors, idx, recommendations, llm_calls, result,
          outcome, orchestrator, stream>>

(***************************************************************************)
(* Bounds of the model.                                                    *)
(***************************************************************************)
\* longest candidate list whose tools are drawn from the whole ToolKinds
MaxShort == 2
\* how many tools beyond the top-N cut the long candidate lists may hold
MaxBeyond == 1

(***************************************************************************)
(* Fixed point units.                                                      *)
(***************************************************************************)
One == 6 * 100
WeightOne == 10 * 100
ScoreOne == One * WeightOne

Min(a, b) == IF a <= b THEN a ELSE b
Max(a, b) == IF a >= b THEN a ELSE b

(***************************************************************************)
(* Text helpers: str.lower, str.split, str.strip, str.join, `in`.          *)
(***************************************************************************)
Whitespace == {" ", "\t", "\n"}

UpperChars == <<"A", "B", "C", "D", "E", "F", "G", "H", "I", "J", "K", "L", "M",
                "N", "O", "P", "Q", "R", "S", "T", "U", "V", "W", "X", "Y", "Z">>
LowerChars == <<"a", "b", "c", "d", "e", "f", "g", "h", "i", "j", "k", "l", "m",
                "n", "o", "p", "q", "r", "s", "t", "u", "v", "w", "x", "y", "z">>

LowerOf == [c \in {UpperChars[k] : k \in 1..Len(UpperChars)} |->
               LowerChars[CHOOSE k \in 1..Len(UpperChars) : UpperChars[k] = c]]

LowerChar(c) == IF c \in DOMAIN LowerOf THEN LowerOf[c] ELSE c

StrLower(s) == [k \in 1..Len(s) |-> LowerChar(s[k])]

\* s.split(): the maximal runs of non-whitespace characters, in order
StrSplit(s) ==
    LET starts == {k \in 1..Len(s) :
                       s[k] \notin Whitespace /\ (k = 1 \/ s[k - 1] \in Whitespace)}
        start(n) == CHOOSE k \in starts : Cardinality({j \in starts : j < k}) = n - 1
        end(k) == CHOOSE e \in k..Len(s) :
                      /\ \A m \in k..e : s[m] \notin Whitespace
                      /\ e = Len(s) \/ s[e + 1] \in Whitespace
    IN  [n \in 1..Cardinality(starts) |-> SubSeq(s, start(n), end(start(n)))]

\* sep.join(parts)
RECURSIVE JoinFrom(_, _, _)
JoinFrom(sep, parts, k) ==
    IF k > Len(parts) THEN <<>>
    ELSE IF k = Len(parts) THEN parts[k]
    ELSE parts[k] \o sep \o JoinFrom(sep, parts, k + 1)

StrJoin(sep, parts) == JoinFrom(sep, parts, 1)

\* needle in hay
StrContains(hay, needle) ==
    \E k \in 0..(Len(hay) - Len(needle)) : SubSeq(hay, k + 1, k + Len(needle)) = needle

\* s.strip()
StrStrip(s) ==
    LET kept == {k \in 1..Len(s) : s[k] \notin Whitespace}
    IN  IF kept = {} THEN <<>>
        ELSE SubSeq(s, CHOOSE k \in kept : \A j \in kept : k <= j,
                       CHOOSE k \in kept : \A j \in kept : k >= j)

(***************************************************************************)
(* Scoring functions of RecommendationEngine.                              *)
(***************************************************************************)
\* dict.get(key, default) on {"beginner": 1, "intermediate": 2, "advanced": 3}
skill_levels(level, default) ==
    CASE level = "beginner" -> 1
      [] level = "intermediate" -> 2
      [] level = "advanced" -> 3
      [] OTHER -> default

\* a skill match that rewards the tools one step below the user
calculate_skill_match_inverted(tool, uc) ==
    LET user_level == skill_levels(uc.skill_level, 1)
        tool_level == skill_levels(tool.difficulty_level, 2)
    IN  IF tool_level = user_level - 1 THEN One
        ELSE IF tool_level = user_level THEN (8 * One) \div 10
        ELSE IF tool_level = user_level + 1 THEN (6 * One) \div 10
        ELSE (3 * One) \div 10

calculate_skill_match(tool, uc) ==
    LET user_level == skill_levels(uc.skill_level, 1)
        tool_level == skill_levels(tool.difficulty_level, 2)
    IN  IF tool_level = user_level + 1 THEN One
        ELSE IF tool_level = user_level THEN (8 * One) \div 10
        ELSE IF tool_level = user_level - 1 THEN (6 * One) \div 10
        ELSE (3 * One) \div 10

\* a domain relevance that forgets .lower() on the tool text
calculate_domain_relevance_case_sensitive(tool, uc) ==
    LET domain_keywords == StrSplit(StrLower(uc.work_domain))
        tool_text == tool.category \o <<" ">> \o StrJoin(<<" ">>, tool.use_cases)
        matches == Cardinality({k \in 1..Len(domain_keywords) :
                                    StrContains(tool_text, domain_keywords[k])})
    IN  IF domain_keywords # <<>>
        THEN Min((matches * One) \div Len(domain_keywords), One)
        ELSE One \div 2

calculate_domain_relevance(tool, uc) ==
    LET domain_keywords == StrSplit(StrLower(uc.work_domain))
        tool_text == StrLower(tool.category \o <<" ">> \o StrJoin(<<" ">>, tool.use_cases))
        matches == Cardinality({k \in 1..Len(domain_keywords) :
                                    StrContains(tool_text, domain_keywords[k])})
    IN  IF domain_keywords # <<>>
        THEN Min((matches * One) \div Len(domain_keywords), One)
        ELSE One \div 2

calculate_tool_compatibility(tool, uc) == (7 * One) \div 10

\* the four locals of _calculate_relevance_score
\* cosine: cosine_similarity of the user embedding and the tool embedding
relevance_factors(tool, uc, cosine) ==
    [semantic_similarity |-> cosine,
     skill_match |-> calculate_skill_match(tool, uc),
     domain_relevance |-> calculate_domain_relevance(tool, uc),
     tool_compatibility |-> calculate_tool_compatibility(tool, uc)]

\* a combination that clamps the semantic term at 0 before weighting
weighted_combination_clamped(f) ==
    LET relevance_score == Max(f.semantic_similarity, 0) * ((3 * WeightOne) \div 10)
                         + f.skill_match * ((25 * WeightOne) \div 100)
                         + f.domain_relevance * ((25 * WeightOne) \div 100)
                         + f.tool_compatibility * ((2 * WeightOne) \div 10)
    IN  Min(relevance_score, ScoreOne)

\* the weighted combination and the final min(relevance_score, 1.0)
weighted_combination(f) ==
    LET relevance_score == f.semantic_similarity * ((3 * WeightOne) \div 10)
                         + f.skill_match * ((25 * WeightOne) \div 100)
                         + f.domain_relevance * ((25 * WeightOne) \div 100)
                         + f.tool_compatibility * ((2 * WeightOne) \div 10)
    IN  Min(relevance_score, ScoreOne)

calculate_relevance_score(tool, uc, cosine) ==
    weighted_combination(relevance_factors(tool, uc, cosine))

\* min(relevance_score * 1.2, 1.0)
confidence_of(relevance_score) == Min((relevance_score * 12) \div 10, ScoreOne)

FallbackReasoning(uc) ==
    <<"Recommended based on relevance to your ">> \o uc.work_domain
        \o <<" work and ", uc.skill_level, " skill level.">>

\* a fallback that interpolates the two fields the wrong way round
generate_reasoning_swapped(tool, uc, reply) ==
    IF reply.ok THEN StrStrip(reply.text)
    ELSE <<"Recommended based on relevance to your ", uc.skill_level, " work and ">>
             \o uc.work_domain \o <<" skill level.">>

\* reply: what client.messages.create does for this tool's prompt
generate_reasoning(tool, uc, reply) ==
    IF reply.ok THEN StrStrip(reply.text) ELSE FallbackReasoning(uc)

skill_adjustment(level) ==
    CASE level = "beginner" -> 1
      [] level = "intermediate" -> 0
      [] level = "advanced" -> -1
      [] OTHER -> 0

\* a complexity without the max(1, min(5, ...))
calculate_implementation_complexity_unclamped(tool, uc) ==
    tool.integration_complexity + skill_adjustment(uc.skill_level)

calculate_implementation_complexity(tool, uc) ==
    Max(1, Min(5, tool.integration_complexity + skill_adjustment(uc.skill_level)))

\* an impact whose first threshold is inclusive
predict_impact_inclusive(tool, uc) ==
    IF uc.productivity_score <= 60 /\ tool.user_rating > 45 THEN "High"
    ELSE IF uc.productivity_score < 80 THEN "Medium"
    ELSE "Low"

predict_impact(tool, uc) ==
    IF uc.productivity_score < 60 /\ tool.user_rating > 45 THEN "High"
    ELSE IF uc.productivity_score < 80 THEN "Medium"
    ELSE "Low"

base_time(level) ==
    CASE level = "beginner" -> 8
      [] level = "intermediate" -> 4
      [] level = "advanced" -> 2
      [] OTHER -> 6

\* in tenths
difficulty_multiplier(level) ==
    CASE level = "beginner" -> 10
      [] level = "intermediate" -> 15
      [] level = "advanced" -> 20
      [] OTHER -> 15

\* a learning time that reads the two tables with the wrong keys
estimate_learning_time_keys_swapped(tool, uc) ==
    (base_time(tool.difficulty_level) * difficulty_multiplier(uc.skill_level)) \div 10

estimate_learning_time(tool, uc) ==
    (base_time(uc.skill_level) * difficulty_multiplier(tool.difficulty_level)) \div 10

Recommendation(tool, uc, cosine, reply) ==
    LET relevance_score == calculate_relevance_score(tool, uc, cosine)
    IN  [tool_id |-> tool.id,
         relevance_score |-> relevance_score,
         confidence |-> confidence_of(relevance_score),
         reasoning |-> generate_reasoning(tool, uc, reply),
         implementation_complexity |-> calculate_implementation_complexity(tool, uc),
         expected_impact |-> predict_impact(tool, uc),
         learning_time_hours |-> estimate_learning_time(tool, uc)]

(***************************************************************************)
(* _create_user_profile.  A text is a sequence of strings; str(float) of a *)
(* productivity score given in hundredths is its shortest decimal form.    *)
(***************************************************************************)
Digits == <<"0", "1", "2", "3", "4", "5", "6", "7", "8", "9">>

RECURSIVE FormatNat(_)
FormatNat(n) ==
    IF n < 10 THEN <<Digits[n + 1]>>
    ELSE FormatNat(n \div 10) \o <<Digits[(n % 10) + 1]>>

\* str(x) of the float x = hundredths / 100
FormatFloat(hundredths) ==
    LET a == IF hundredths < 0 THEN -hundredths ELSE hundredths
        frac == a % 100
    IN  (IF hundredths < 0 THEN <<"-">> ELSE <<>>)
            \o FormatNat(a \div 100) \o <<".">>
            \o (IF frac % 10 = 0 THEN <<Digits[(frac \div 10) + 1]>>
                ELSE <<Digits[(frac \div 10) + 1], Digits[(frac % 10) + 1]>>)

create_user_profile(uc, insights) ==
    LET profile_parts ==
            << <<"User skill level: ", uc.skill_level>>,
               <<"Work domain: ">> \o uc.work_domain,
               <<"Current tools: ">> \o StrJoin(<<",", " ">>, uc.tools_used),
               <<"Goals: ">> \o StrJoin(<<",", " ">>, uc.goals),
               <<"Productivity score: ">> \o FormatFloat(uc.productivity_score) >>
    IN  StrJoin(<<" ">>,
                IF insights.skill_gaps # <<>>
                THEN Append(profile_parts,
                            <<"Skill gaps: ">> \o StrJoin(<<",", " ">>, insights.skill_gaps))
                ELSE profile_parts)

(***************************************************************************)
(* recommendations.sort(key=lambda x: x.relevance_score, reverse=True):    *)
(* list.sort is stable and reverse=True keeps the order of equal keys, so  *)
(* an element goes after every element with a larger key and after the     *)
(* earlier elements with an equal key.                                     *)
(***************************************************************************)
\* before: the pairs <<j, k>> of positions such that recs[j] goes before recs[k]
SortedBy(recs, before) ==
    LET place(k) == 1 + Cardinality({j \in 1..Len(recs) : <<j, k>> \in before})
    IN  [r \in 1..Len(recs) |-> recs[CHOOSE k \in 1..Len(recs) : place(k) = r]]

Positions(recs) == (1..Len(recs)) \X (1..Len(recs))

\* a sort that forgets reverse=True
sort_ascending(recs) ==
    SortedBy(recs, {jk \in Positions(recs) :
        \/ recs[jk[1]].relevance_score < recs[jk[2]].relevance_score
        \/ /\ recs[jk[1]].relevance_score = recs[jk[2]].relevance_score
           /\ jk[1] < jk[2]})

\* an ascending sort followed by reversed(): equal keys end up in reverse order
sort_then_reversed(recs) ==
    SortedBy(recs, {jk \in Positions(recs) :
        \/ recs[jk[1]].relevance_score > recs[jk[2]].relevance_score
        \/ /\ recs[jk[1]].relevance_score = recs[jk[2]].relevance_score
           /\ jk[1] > jk[2]})

sort_by_relevance_reverse(recs) ==
    SortedBy(recs, {jk \in Positions(recs) :
        \/ recs[jk[1]].relevance_score > recs[jk[2]].relevance_score
        \/ /\ recs[jk[1]].relevance_score = recs[jk[2]].relevance_score
           /\ jk[1] < jk[2]})

\* recommendations[:10]
TopN == 10
top_slice(recs) == SubSeq(recs, 1, Min(TopN, Len(recs)))

(***************************************************************************)
(* Inputs.  A tool kind is an AITool (the fields the scoring reads; name,  *)
(* description, capabilities and pricing_model only reach the prompt and   *)
(* the profile string) with what the two collaborators answer for it:      *)
(* embed.ok = FALSE when encode(tool_profile) raises, else embed.cosine is *)
(* the cosine similarity with the user embedding; reply.ok = FALSE when    *)
(* messages.create raises, else reply.text is the text returned.           *)
(***************************************************************************)
ToolKinds ==
    << [category |-> <<"d", "e", "v">>, use_cases |-> << <<"o", "p", "s">> >>,
        difficulty_level |-> "beginner", integration_complexity |-> 2,
        user_rating |-> 48,
        embed |-> [ok |-> TRUE, cosine |-> One],
        reply |-> [ok |-> TRUE, text |-> <<" ", "o", "k", "\n">>]],
       [category |-> <<"D", "e", "v", "O", "p", "s">>, use_cases |-> <<>>,
        difficulty_level |-> "intermediate", integration_complexity |-> 3,
        user_rating |-> 47,
        embed |-> [ok |-> TRUE, cosine |-> 0],
        reply |-> [ok |-> FALSE, text |-> <<>>]],
       [category |-> <<"m", "l">>, use_cases |-> << <<"a", "i">>, <<"n", "l", "p">> >>,
        difficulty_level |-> "advanced", integration_complexity |-> 5,
        user_rating |-> 45,
        embed |-> [ok |-> TRUE, cosine |-> -One],
        reply |-> [ok |-> TRUE, text |-> <<"o", "k">>]],
       [category |-> <<"m", "l">>, use_cases |-> << <<"a", "i">> >>,
        difficulty_level |-> "beginner", integration_complexity |-> 1,
        user_rating |-> 30,
        embed |-> [ok |-> FALSE, cosine |-> 0],
        reply |-> [ok |-> TRUE, text |-> <<"o", "k">>]],
       [category |-> <<"d", "e", "v">>, use_cases |-> << <<"u", "x">> >>,
        difficulty_level |-> "expert", integration_complexity |-> 6,
        user_rating |-> 50,
        embed |-> [ok |-> TRUE, cosine |-> One \div 2],
        reply |-> [ok |-> TRUE, text |-> <<" ">>]],
       [category |-> <<>>, use_cases |-> <<>>,
        difficulty_level |-> "intermediate", integration_complexity |-> 0,
        user_rating |-> 0,
        embed |-> [ok |-> TRUE, cosine |-> -(One \div 2)],
        reply |-> [ok |-> TRUE, text |-> <<>>]] >>

\* the kinds the candidate lists longer than TopN are made of
LongKinds == {1, 2}

SkillLevels == {"beginner", "intermediate", "advanced", "expert"}
WorkDomains ==
    { <<>>,
      <<" ">>,
      <<"D", "e", "v">>,
      <<"d", "e", "v", " ", "o", "p", "s">>,
      <<"m", "l", " ", "u", "x", " ", "q", "a">> }
ProductivityScores == {50, 70, 90}

\* tools_used and goals only reach the profile string and the prompts
ToolsUsed == << <<"v", "i", "m">>, <<"g", "i", "t">> >>
Goals == << <<"s", "h", "i", "p">> >>

UserContexts ==
    [skill_level : SkillLevels, work_domain : WorkDomains,
     productivity_score : ProductivityScores,
     tools_used : {ToolsUsed}, goals : {Goals}]

LongUserContext ==
    [skill_level |-> "intermediate",
     work_domain |-> <<"d", "e", "v", " ", "o", "p", "s">>,
     productivity_score |-> 70,
     tools_used |-> ToolsUsed, goals |-> Goals]

\* pattern_insights: skill_gaps is <<>> when the key is absent or empty
NoInsights == [skill_gaps |-> <<>>]
SkillGapInsights == [skill_gaps |-> << <<"c", "i">>, <<"s", "q", "l">> >>]

\* the candidate list made of the kinds ks, with tool ids 1, 2, ...
ToolsOf(ks) ==
    [k \in 1..Len(ks) |->
        [id |-> k,
         category |-> ToolKinds[ks[k]].category,
         use_cases |-> ToolKinds[ks[k]].use_cases,
         difficulty_level |-> ToolKinds[ks[k]].difficulty_level,
         integration_complexity |-> ToolKinds[ks[k]].integration_complexity,
         user_rating |-> ToolKinds[ks[k]].user_rating]]

KindLists(kinds, lo, hi) == UNION {[1..n -> kinds] : n \in lo..hi}

InitCall(uc, insights, ks, iterable, embed_ok) ==
    /\ user_context = uc
    /\ pattern_insights = insights
    /\ call_no = 1
    /\ previous_result = <<>>
    /\ user_profile = <<>>
    /\ encode_calls = <<>>
    /\ user_embedding = <<>>
    /\ factors = <<>>
    /\ available_tools = ToolsOf(ks)
    /\ tool_embed = [k \in 1..Len(ks) |-> ToolKinds[ks[k]].embed]
    /\ llm_reply = [k \in 1..Len(ks) |-> ToolKinds[ks[k]].reply]
    /\ tools_iterable = iterable
    /\ user_embed_ok = embed_ok
    /\ pc = "start"
    /\ idx = 1
    /\ recommendations = <<>>
    /\ llm_calls = <<>>
    /\ result = <<>>
    /\ outcome = "running"

\* generate_recommendations called on its own: no orchestrator run
NoOrchestrator ==
    /\ original_context = <<>>
    /\ o_pc = "none"
    /\ sanitized_context = <<>>
    /\ pattern_task = [state |-> "none"]
    /\ discovery_task = [state |-> "none"]
    /\ agent_log = <<>>
    /\ learning_paths = <<>>
    /\ implementation_guides = <<>>

\* no /stream request
NoStream ==
    /\ s_pc = "none"
    /\ agent_stream = <<>>
    /\ final_state = "none"
    /\ client_connected = TRUE
    /\ disconnect_detected = FALSE
    /\ events = <<>>
    /\ full_agent_reply = <<>>
    /\ all_tool_calls = <<>>
    /\ error_message = "None"
    /\ agent_invocations = <<>>
    /\ scheduled_tasks = <<>>

Init ==
    /\ cancel_at = 0
    /\ NoOrchestrator
    /\ NoStream
    /\ \/ \E uc \in UserContexts, ks \in KindLists(1..Len(ToolKinds), 0, MaxShort),
             embed_ok \in BOOLEAN :
               InitCall(uc, NoInsights, ks, TRUE, embed_ok)
       \/ \E uc \in UserContexts, embed_ok \in BOOLEAN :
               InitCall(uc, NoInsights, <<>>, FALSE, embed_ok)
       \/ \E ks \in KindLists(LongKinds, TopN + 1, TopN + MaxBeyond) :
               InitCall(LongUserContext, NoInsights, ks, TRUE, TRUE)

\* Inputs of the scoring functions: one candidate tool at most, every kind,
\* and productivity scores on, between and outside the thresholds and [0, 1].
ScoringProductivityScores == {-20, 50, 60, 70, 80, 90, 150}

ScoringUserContexts ==
    [skill_level : SkillLevels, work_domain : WorkDomains,
     productivity_score : ScoringProductivityScores,
     tools_used : {ToolsUsed}, goals : {Goals}]

InitScoring ==
    /\ cancel_at = 0
    /\ NoOrchestrator
    /\ NoStream
    /\ \/ \E uc \in ScoringUserContexts, insights \in {NoInsights, SkillGapInsights},
             ks \in KindLists(1..Len(ToolKinds), 0, 1), embed_ok \in BOOLEAN :
               InitCall(uc, insights, ks, TRUE, embed_ok)
       \/ \E uc \in ScoringUserContexts :
               InitCall(uc, NoInsights, <<>>, FALSE, TRUE)

\* A call whose task may be cancelled while one text-generation call is in
\* flight (cancel_at: the position of that tool).
InitCancel ==
    /\ NoOrchestrator
    /\ NoStream
    /\ \/ \E uc \in UserContexts, ks \in KindLists(1..Len(ToolKinds), 0, MaxShort) :
               /\ InitCall(uc, NoInsights, ks, TRUE, TRUE)
               /\ cancel_at \in 0..Len(ks)
       \/ \E uc \in UserContexts :
               /\ InitCall(uc, NoInsights, <<>>, FALSE, TRUE)
               /\ cancel_at = 0

(***************************************************************************)
(* generate_recommendations, one action per stretch between two awaits.    *)
(***************************************************************************)
\* a handler that logs and re-raises, as the one of analyze_user_and_recommend
except_reraise ==
    /\ result' = <<>>
    /\ outcome' = "raised"
    /\ pc' = "done"

\* except Exception as e: logger.error(...); return []
except_Exception ==
    /\ result' = <<>>
    /\ outcome' = "returned"
    /\ pc' = "done"

\* asyncio.CancelledError is a BaseException: no "except Exception" of
\* _generate_reasoning or generate_recommendations catches it
raise_CancelledError ==
    /\ result' = <<>>
    /\ outcome' = "cancelled"
    /\ pc' = "done"

\* a start of the call that keeps the list of the call before
EncodeUserProfile_keeps_list ==
    /\ pc = "start"
    /\ user_profile' = create_user_profile(user_context, pattern_insights)
    /\ encode_calls' = Append(encode_calls, "user_profile")
    /\ IF user_embed_ok
       THEN /\ user_embedding' = [encode_call |-> Len(encode_calls')]
            /\ pc' = "loop"
            /\ UNCHANGED <<result, outcome>>
       ELSE /\ except_Exception
            /\ UNCHANGED user_embedding
    /\ UNCHANGED <<inputs, call_no, previous_result, factors, idx, recommendations,
                   llm_calls, orchestrator, stream>>

\* user_profile = ...; user_embedding = encode(user_profile); recommendations = []
EncodeUserProfile ==
    /\ pc = "start"
    /\ user_profile' = create_user_profile(user_context, pattern_insights)
    /\ encode_calls' = Append(encode_calls, "user_profile")
    /\ IF user_embed_ok
       THEN /\ user_embedding' = [encode_call |-> Len(encode_calls')]
            /\ pc' = "loop"
            /\ recommendations' = <<>>
            /\ UNCHANGED <<result, outcome>>
       ELSE /\ except_Exception
            /\ UNCHANGED <<user_embedding, recommendations>>
    /\ UNCHANGED <<inputs, call_no, previous_result, factors, idx, llm_calls,
                   orchestrator, stream>>

\* for tool in available_tools: when available_tools is not iterable
IterateNotIterable ==
    /\ pc = "loop"
    /\ ~tools_iterable
    /\ except_Exception
    /\ UNCHANGED <<inputs, call_no, previous_result, user_profile, encode_calls,
                   user_embedding, factors, idx, recommendations, llm_calls,
                   orchestrator, stream>>

\* a loop body that encodes the user profile again for each tool
ScoreTool_reencodes ==
    /\ pc = "loop"
    /\ tools_iterable
    /\ idx <= Len(available_tools)
    /\ encode_calls' = encode_calls \o <<"user_profile", "tool_profile">>
    /\ user_embedding' = [encode_call |-> Len(encode_calls) + 1]
    /\ LET tool == available_tools[idx]
       IN  IF ~tool_embed[idx].ok
           THEN /\ except_Exception
                /\ UNCHANGED <<factors, idx, recommendations, llm_calls>>
           ELSE IF cancel_at = idx
           THEN /\ llm_calls' = Append(llm_calls, tool.id)
                /\ raise_CancelledError
                /\ UNCHANGED <<factors, idx, recommendations>>
           ELSE /\ factors' = Append(factors,
                                     relevance_factors(tool, user_context,
                                                       tool_embed[idx].cosine))
                /\ llm_calls' = Append(llm_calls, tool.id)
                /\ recommendations' =
                       Append(recommendations,
                              Recommendation(tool, user_context,
                                             tool_embed[idx].cosine, llm_reply[idx]))
                /\ idx' = idx + 1
                /\ UNCHANGED <<pc, result, outcome>>
    /\ UNCHANGED <<inputs, call_no, previous_result, user_profile, orchestrator,
                   stream>>

\* one pass of the loop body for available_tools[idx]; the body is left early
\* when encode(tool_profile) raises or the text-generation call is cancelled
ScoreTool ==
    /\ pc = "loop"
    /\ tools_iterable
    /\ idx <= Len(available_tools)
    /\ encode_calls' = Append(encode_calls, "tool_profile")
    /\ LET tool == available_tools[idx]
       IN  IF ~tool_embed[idx].ok
           THEN /\ except_Exception
                /\ UNCHANGED <<factors, idx, recommendations, llm_calls>>
           ELSE IF cancel_at = idx
           THEN /\ llm_calls' = Append(llm_calls, tool.id)
                /\ raise_CancelledError
                /\ UNCHANGED <<factors, idx, recommendations>>
           ELSE /\ factors' = Append(factors,
                                     relevance_factors(tool, user_context,
                                                       tool_embed[idx].cosine))
                /\ llm_calls' = Append(llm_calls, tool.id)
                /\ recommendations' =
                       Append(recommendations,
                              Recommendation(tool, user_context,
                                             tool_embed[idx].cosine, llm_reply[idx]))
                /\ idx' = idx + 1
                /\ UNCHANGED <<pc, result, outcome>>
    /\ UNCHANGED <<inputs, call_no, previous_result, user_profile, user_embedding,
                   orchestrator, stream>>

\* recommendations.sort(...); return recommendations[:10]
SortAndReturn ==
    /\ pc = "loop"
    /\ tools_iterable
    /\ idx > Len(available_tools)
    /\ recommendations' = sort_by_relevance_reverse(recommendations)
    /\ result' = top_slice(recommendations')
    /\ outcome' = "returned"
    /\ pc' = "done"
    /\ UNCHANGED <<inputs, call_no, previous_result, user_profile, encode_calls,
                   user_embedding, factors, idx, llm_calls, orchestrator, stream>>

Next ==
    \/ EncodeUserProfile
    \/ IterateNotIterable
    \/ ScoreTool
    \/ SortAndReturn

Spec == Init /\ [][Next]_vars

\* the scoring functions over their wider inputs
ScoringSpec == InitScoring /\ [][Next]_vars

\* the call with a cancellation of its task
CancelSpec == InitCancel /\ [][Next]_vars

\* The caller calls generate_recommendations again with the same arguments
\* and collaborators that answer as before.  The locals of the new call are
\* unassigned until the call assigns them: the model keeps the old values.
CallAgain ==
    /\ pc = "done"
    /\ call_no = 1
    /\ call_no' = 2
    /\ previous_result' = [returned |-> result, outcome |-> outcome]
    /\ pc' = "start"
    /\ idx' = 1
    /\ user_profile' = <<>>
    /\ encode_calls' = <<>>
    /\ user_embedding' = <<>>
    /\ factors' = <<>>
    /\ llm_calls' = <<>>
    /\ result' = <<>>
    /\ outcome' = "running"
    /\ UNCHANGED <<inputs, recommendations, orchestrator, stream>>

NextRepeat == Next \/ CallAgain

RepeatSpec == Init /\ [][NextRepeat]_vars

(***************************************************************************)
(* PrivacyGuardianAgent.  A dict is a function from its keys.              *)
(***************************************************************************)
\* hashlib.sha256(user_id.encode()).hexdigest()[:16], for the ids of the model
anonymize_user_id(user_id) ==
    CASE user_id = "u1" -> <<"b", "b", "8", "2", "0", "3", "0", "d", "b", "c", "2", "b", "c", "a", "b", "a">>
      [] user_id = "alice@example.com" -> <<"f", "f", "8", "d", "9", "8", "1", "9", "f", "c", "0", "e", "1", "2", "b", "f">>

sanitize_activity_patterns(patterns) ==
    [key \in DOMAIN patterns \ {"personal_info", "sensitive_data", "private_urls"}
        |-> patterns[key]]

safe_keys == {"theme", "notifications", "learning_style", "difficulty_preference"}

sanitize_preferences(preferences) ==
    [k \in DOMAIN preferences \cap safe_keys |-> preferences[k]]

sensitive_keywords ==
    { <<"s", "a", "l", "a", "r", "y">>,
      <<"p", "e", "r", "s", "o", "n", "a", "l">>,
      <<"c", "o", "n", "f", "i", "d", "e", "n", "t", "i", "a", "l">>,
      <<"p", "r", "i", "v", "a", "t", "e">> }

\* a filter that forgets goal.lower()
sanitize_goals_case_sensitive(goals) ==
    LET keep(goal) == ~\E keyword \in sensitive_keywords : StrContains(goal, keyword)
    IN  SelectSeq(goals, keep)

sanitize_goals(goals) ==
    LET keep(goal) ==
            ~\E keyword \in sensitive_keywords : StrContains(StrLower(goal), keyword)
    IN  SelectSeq(goals, keep)

sanitize_user_data(uc) ==
    [user_id |-> anonymize_user_id(uc.user_id),
     activity_patterns |-> sanitize_activity_patterns(uc.activity_patterns),
     skill_level |-> uc.skill_level,
     preferences |-> sanitize_preferences(uc.preferences),
     goals |-> sanitize_goals(uc.goals),
     work_domain |-> uc.work_domain,
     tools_used |-> uc.tools_used,
     productivity_score |-> uc.productivity_score]

(***************************************************************************)
(* Inputs of analyze_user_and_recommend.                                   *)
(***************************************************************************)
ActivityPatterns ==
    { [key \in {"commands"} |-> 3],
      [key \in {"commands", "personal_info", "private_urls", "sensitive_data"} |-> 3] }

Preferences ==
    { [key \in {"theme"} |-> "dark"],
      [key \in {"theme", "email", "learning_style"} |-> "x"] }

SensitiveGoals ==
    << <<"s", "h", "i", "p">>,
       <<"S", "a", "l", "a", "r", "y", " ", "u", "p">>,
       <<"g", "o", " ", "P", "R", "I", "V", "A", "T", "E">> >>

RawContexts ==
    [user_id : {"u1", "alice@example.com"},
     activity_patterns : ActivityPatterns,
     skill_level : {"intermediate"},
     preferences : Preferences,
     goals : {Goals, SensitiveGoals},
     work_domain : {LongUserContext.work_domain},
     tools_used : {ToolsUsed},
     productivity_score : {70}]

\* analyze_patterns returns {"error": str(e)} when its call or json.loads fails
ErrorInsights == [skill_gaps |-> <<>>, error |-> "str(e)"]

\* what discover_relevant_tools may return: short lists, and one list longer
\* than the five learning paths
SixKinds == <<1, 2, 3, 1, 2, 3>>
DiscoveredKindLists == KindLists({1, 3}, 0, MaxShort) \cup {SixKinds}

\* generate_recommendations not called yet
NoPass ==
    /\ user_context = <<>>
    /\ pattern_insights = <<>>
    /\ available_tools = <<>>
    /\ tools_iterable = TRUE
    /\ user_embed_ok = TRUE
    /\ tool_embed = <<>>
    /\ llm_reply = <<>>
    /\ cancel_at = 0
    /\ call_no = 1
    /\ previous_result = <<>>
    /\ pc = "not called"
    /\ user_profile = <<>>
    /\ encode_calls = <<>>
    /\ user_embedding = <<>>
    /\ factors = <<>>
    /\ idx = 1
    /\ recommendations = <<>>
    /\ llm_calls = <<>>
    /\ result = <<>>
    /\ outcome = "running"

InitOrchestrator ==
    /\ original_context \in RawContexts
    /\ o_pc = "sanitize"
    /\ sanitized_context = <<>>
    /\ pattern_task = [state |-> "unstarted"]
    /\ discovery_task = [state |-> "unstarted"]
    /\ agent_log = <<>>
    /\ learning_paths = <<>>
    /\ implementation_guides = <<>>
    /\ NoStream
    /\ NoPass

(***************************************************************************)
(* analyze_user_and_recommend, create_learning_paths and generate_guides.  *)
(***************************************************************************)
pass == <<call_no, previous_result, pc, user_profile, encode_calls, user_embedding,
          factors, idx, recommendations, llm_calls, result, outcome>>

\* sanitized_context = await self.privacy_guardian.sanitize_user_data(user_context)
Sanitize ==
    /\ o_pc = "sanitize"
    /\ sanitized_context' = sanitize_user_data(original_context)
    /\ o_pc' = "create tasks"
    /\ UNCHANGED <<original_context, pattern_task, discovery_task, agent_log,
                   learning_paths, implementation_guides, inputs, pass, stream>>

\* the two coroutines are created on sanitized_context and given to gather
Gather ==
    /\ o_pc = "create tasks"
    /\ pattern_task' = [state |-> "running"]
    /\ discovery_task' = [state |-> "running"]
    /\ agent_log' = agent_log \o
           << [agent |-> "analyze_patterns", context |-> sanitized_context],
              [agent |-> "discover_relevant_tools", context |-> sanitized_context] >>
    /\ o_pc' = "gather"
    /\ UNCHANGED <<original_context, sanitized_context, learning_paths,
                   implementation_guides, inputs, pass, stream>>

\* analyze_patterns returns: the parsed analysis, or the error dict
PatternAnalysisDone ==
    /\ pattern_task.state = "running"
    /\ \E analysis \in {SkillGapInsights, ErrorInsights} :
           pattern_task' = [state |-> "done", result |-> analysis,
                            last |-> discovery_task.state = "done"]
    /\ UNCHANGED <<original_context, o_pc, sanitized_context, discovery_task,
                   agent_log, learning_paths, implementation_guides, inputs, pass,
                   stream>>

\* discover_relevant_tools returns relevant_tools[:20], or [] after an error
ToolDiscoveryDone ==
    /\ discovery_task.state = "running"
    /\ \E ks \in DiscoveredKindLists :
           discovery_task' = [state |-> "done", result |-> ks,
                              last |-> pattern_task.state = "done"]
    /\ UNCHANGED <<original_context, o_pc, sanitized_context, pattern_task,
                   agent_log, learning_paths, implementation_guides, inputs, pass,
                   stream>>

\* a caller that goes on as soon as one of the two tasks is done
GenerateRecommendations_first_completed ==
    /\ o_pc = "gather"
    /\ pattern_task.state = "done" \/ discovery_task.state = "done"
    /\ pattern_insights' = IF pattern_task.state = "done" THEN pattern_task.result
                           ELSE NoInsights
    /\ LET ks == IF discovery_task.state = "done" THEN discovery_task.result ELSE <<>>
       IN  /\ available_tools' = ToolsOf(ks)
           /\ tool_embed' = [k \in 1..Len(ks) |-> ToolKinds[ks[k]].embed]
           /\ llm_reply' = [k \in 1..Len(ks) |-> ToolKinds[ks[k]].reply]
    /\ user_context' = sanitized_context
    /\ user_embed_ok' \in BOOLEAN
    /\ agent_log' = Append(agent_log, [agent |-> "generate_recommendations",
                                       context |-> sanitized_context])
    /\ pc' = "start"
    /\ o_pc' = "ranking"
    /\ UNCHANGED <<original_context, sanitized_context, pattern_task, discovery_task,
                   learning_paths, implementation_guides, tools_iterable, cancel_at,
                   call_no, previous_result, user_profile, encode_calls,
                   user_embedding, factors, idx, recommendations, llm_calls, result,
                   outcome, stream>>

\* gather returns both results; generate_recommendations is called with them
GenerateRecommendations ==
    /\ o_pc = "gather"
    /\ pattern_task.state = "done" /\ discovery_task.state = "done"
    /\ pattern_insights' = pattern_task.result
    /\ LET ks == discovery_task.result
       IN  /\ available_tools' = ToolsOf(ks)
           /\ tool_embed' = [k \in 1..Len(ks) |-> ToolKinds[ks[k]].embed]
           /\ llm_reply' = [k \in 1..Len(ks) |-> ToolKinds[ks[k]].reply]
    /\ user_context' = sanitized_context
    /\ user_embed_ok' \in BOOLEAN
    /\ agent_log' = Append(agent_log, [agent |-> "generate_recommendations",
                                       context |-> sanitized_context])
    /\ pc' = "start"
    /\ o_pc' = "ranking"
    /\ UNCHANGED <<original_context, sanitized_context, pattern_task, discovery_task,
                   learning_paths, implementation_guides, tools_iterable, cancel_at,
                   call_no, previous_result, user_profile, encode_calls,
                   user_embedding, factors, idx, recommendations, llm_calls, result,
                   outcome, stream>>

\* top_tools = [rec.tool_id for rec in recommendations[:5]]
TopPaths == 5
top_tools == [p \in 1..Min(TopPaths, Len(result)) |-> result[p].tool_id]

\* recommendations[:3]
TopGuides == 3
guide_recommendations == SubSeq(result, 1, Min(TopGuides, Len(result)))

\* create_learning_paths(sanitized_context, top_tools) is called
CreateLearningPaths ==
    /\ o_pc = "ranking"
    /\ pc = "done"
    /\ outcome = "returned"
    /\ agent_log' = Append(agent_log, [agent |-> "create_learning_paths",
                                       context |-> sanitized_context])
    /\ learning_paths' = <<>>
    /\ o_pc' = "paths"
    /\ UNCHANGED <<original_context, sanitized_context, pattern_task, discovery_task,
                   implementation_guides, inputs, pass, stream>>

\* a loop that gives up on the first failure, as the outer handler would
CreateSingleLearningPath_gives_up ==
    /\ o_pc = "paths"
    /\ Len(learning_paths) < Len(top_tools)
    /\ LET tool_id == top_tools[Len(learning_paths) + 1]
       IN  \E parsed \in BOOLEAN :
               IF parsed
               THEN /\ learning_paths' = Append(learning_paths,
                                                [path_data |-> "reply", prompt_tool_id |-> tool_id])
                    /\ UNCHANGED o_pc
               ELSE /\ learning_paths' = <<>>
                    /\ o_pc' = "paths given up"
    /\ UNCHANGED <<original_context, sanitized_context, pattern_task, discovery_task,
                   agent_log, implementation_guides, inputs, pass, stream>>

\* one pass of the loop of create_learning_paths: _create_single_learning_path
\* returns the parsed reply to its prompt, or the fallback when the call or
\* json.loads raises
CreateSingleLearningPath ==
    /\ o_pc = "paths"
    /\ Len(learning_paths) < Len(top_tools)
    /\ LET tool_id == top_tools[Len(learning_paths) + 1]
       IN  \E parsed \in BOOLEAN :
               learning_paths' =
                   Append(learning_paths,
                          IF parsed
                          THEN [path_data |-> "reply", prompt_tool_id |-> tool_id]
                          ELSE [tool_id |-> tool_id,
                                title |-> <<"Learning Path for ", tool_id>>,
                                error |-> "str(e)"])
    /\ UNCHANGED <<original_context, o_pc, sanitized_context, pattern_task,
                   discovery_task, agent_log, implementation_guides, inputs, pass,
                   stream>>

\* create_learning_paths returns; generate_guides(sanitized_context,
\* recommendations[:3]) is called
GenerateGuides ==
    /\ o_pc \in {"paths", "paths given up"}
    /\ o_pc = "paths" => Len(learning_paths) = Len(top_tools)
    /\ agent_log' = Append(agent_log, [agent |-> "generate_guides",
                                       context |-> sanitized_context])
    /\ implementation_guides' = <<>>
    /\ o_pc' = "guides"
    /\ UNCHANGED <<original_context, sanitized_context, pattern_task, discovery_task,
                   learning_paths, inputs, pass, stream>>

\* one pass of the loop of generate_guides: _create_implementation_guide
CreateImplementationGuide ==
    /\ o_pc = "guides"
    /\ Len(implementation_guides) < Len(guide_recommendations)
    /\ LET recommendation == guide_recommendations[Len(implementation_guides) + 1]
       IN  \E answered \in BOOLEAN :
               implementation_guides' =
                   Append(implementation_guides,
                          IF answered
                          THEN [tool_id |-> recommendation.tool_id,
                                title |-> <<"Implementation Guide for ",
                                            recommendation.tool_id>>,
                                content |-> "message.content",
                                complexity |-> recommendation.implementation_complexity,
                                estimated_setup_time |->
                                    FormatNat(recommendation.learning_time_hours \div 4)
                                        \o <<" hours">>]
                          ELSE [tool_id |-> recommendation.tool_id,
                                error |-> "str(e)"])
    /\ UNCHANGED <<original_context, o_pc, sanitized_context, pattern_task,
                   discovery_task, agent_log, learning_paths, inputs, pass, stream>>

\* generate_guides returns and the result dict is returned
ReturnAnalysis ==
    /\ o_pc = "guides"
    /\ Len(implementation_guides) = Len(guide_recommendations)
    /\ o_pc' = "done"
    /\ UNCHANGED <<original_context, sanitized_context, pattern_task, discovery_task,
                   agent_log, learning_paths, implementation_guides, inputs, pass,
                   stream>>

\* discover_relevant_tools always returns a list, so generate_recommendations
\* never meets a non-iterable here and returns a list to the orchestrator
NextOrchestrator ==
    \/ Sanitize
    \/ Gather
    \/ PatternAnalysisDone
    \/ ToolDiscoveryDone
    \/ GenerateRecommendations
    \/ EncodeUserProfile
    \/ ScoreTool
    \/ SortAndReturn
    \/ CreateLearningPaths
    \/ CreateSingleLearningPath
    \/ GenerateGuides
    \/ CreateImplementationGuide
    \/ ReturnAnalysis

OrchestratorSpec == InitOrchestrator /\ [][NextOrchestrator]_vars

(***************************************************************************)
(* event_generator of the /stream endpoint (routers/recommendations.py).   *)
(* s_pc names the yield or await the generator is suspended at; an action  *)
(* runs the generator from one suspension to the next.  A LogEntry of      *)
(* astream_log is modelled by the branch of the loop body it takes.        *)
(***************************************************************************)
\* how many LogEntry events astream_log yields at most
MaxEvents == 2

EventKinds ==
    {"tool invoking",         \* tool node, state "invoking", no output yet
     "tool output",           \* tool node, output available
     "tool invoking output",  \* tool node, state "invoking" and an output
     "llm chunks",            \* agent:parser, output a list of one chunk
     "llm message",           \* agent:parser, output a single AIMessage
     "llm string",            \* agent:parser, output a plain str
     "other"}                 \* any other LogEntry

\* astream_log yields some events and then ends, or raises
AgentStreams ==
    UNION {[1..n -> EventKinds] : n \in 0..MaxEvents}
        \cup {Append(es, x) : es \in UNION {[1..n -> EventKinds] : n \in 0..MaxEvents - 1},
                              x \in {"Exception", "HTTPException"}}

\* what ainvoke answers: a dict with messages, a str, something else, or it raises
FinalStates == {"dict", "str", "other", "Exception"}

chunk_content == <<"a">>
message_content == <<"a">>
string_output == <<"b">>

InitStream ==
    /\ s_pc = "created"
    /\ agent_stream \in AgentStreams
    /\ final_state \in FinalStates
    /\ client_connected = TRUE
    /\ disconnect_detected = FALSE
    /\ events = <<>>
    /\ full_agent_reply = <<>>
    /\ all_tool_calls = <<>>
    /\ error_message = "None"
    /\ agent_invocations = <<>>
    /\ scheduled_tasks = <<>>
    /\ NoOrchestrator
    /\ NoPass

YieldPoints == {"yield status", "yield tool_call_start", "yield tool_call_start, end next",
                "yield tool_call_end", "yield message_chunk", "yield final_response",
                "yield stream_end", "yield error"}

AwaitPoints == {"await astream_log", "await ainvoke"}

\* a finally that logs only while the client is still there
finally_unless_disconnected ==
    /\ scheduled_tasks' =
           IF client_connected
           THEN Append(scheduled_tasks,
                       [interaction_type |-> "stream_full_log",
                        reply |-> IF full_agent_reply' # <<>> THEN full_agent_reply'
                                  ELSE <<"Stream ended before full reply, or error.">>,
                        error |-> error_message'])
           ELSE scheduled_tasks
    /\ s_pc' = "finished"

\* finally: ... background_tasks.add_task(store_agent_interaction, ...,
\* interaction_type="stream_full_log"); the generator is over
finally_add_task ==
    /\ scheduled_tasks' =
           Append(scheduled_tasks,
                  [interaction_type |-> "stream_full_log",
                   reply |-> IF full_agent_reply' # <<>> THEN full_agent_reply'
                             ELSE <<"Stream ended before full reply, or error.">>,
                   error |-> error_message'])
    /\ s_pc' = "finished"

\* except Exception as e: error_message = ...; yield the error event
except_yield_error ==
    /\ error_message' = "Error during agent stream: str(e)"
    /\ events' = Append(events, "error")
    /\ s_pc' = "yield error"

\* the code after the loop, up to its first await or yield
after_loop ==
    IF full_agent_reply = <<>>
    THEN /\ agent_invocations' = Append(agent_invocations, "ainvoke")
         /\ s_pc' = "await ainvoke"
         /\ UNCHANGED events
    ELSE /\ events' = Append(events, "final_response")
         /\ s_pc' = "yield final_response"
         /\ UNCHANGED agent_invocations

\* the client goes away
ClientDisconnects ==
    /\ s_pc \notin {"none", "finished"}
    /\ client_connected
    /\ client_connected' = FALSE
    /\ UNCHANGED <<s_pc, agent_stream, final_state, disconnect_detected, events,
                   full_agent_reply, all_tool_calls, error_message,
                   agent_invocations, scheduled_tasks, inputs, pass, orchestrator>>

\* first iteration: the generator runs to the yield of the status event
YieldStatus ==
    /\ s_pc = "created"
    /\ events' = Append(events, "status")
    /\ s_pc' = "yield status"
    /\ UNCHANGED <<agent_stream, final_state, client_connected, disconnect_detected,
                   full_agent_reply, all_tool_calls, error_message,
                   agent_invocations, scheduled_tasks, inputs, pass, orchestrator>>

\* resumed at a yield of the loop: the async for asks astream_log for an event
AwaitNextEvent ==
    /\ s_pc \in {"yield status", "yield tool_call_start", "yield tool_call_end",
                 "yield message_chunk"}
    /\ agent_invocations' = IF s_pc = "yield status"
                            THEN Append(agent_invocations, "astream_log")
                            ELSE agent_invocations
    /\ s_pc' = "await astream_log"
    /\ UNCHANGED <<agent_stream, final_state, client_connected, disconnect_detected,
                   events, full_agent_reply, all_tool_calls, error_message,
                   scheduled_tasks, inputs, pass, orchestrator>>

\* resumed at tool_call_start of an event that also has an output
YieldToolCallEnd ==
    /\ s_pc = "yield tool_call_start, end next"
    /\ all_tool_calls' = Append(all_tool_calls, "AgentToolCall")
    /\ events' = Append(events, "tool_call_end")
    /\ s_pc' = "yield tool_call_end"
    /\ UNCHANGED <<agent_stream, final_state, client_connected, disconnect_detected,
                   full_agent_reply, error_message, agent_invocations,
                   scheduled_tasks, inputs, pass, orchestrator>>

\* astream_log is exhausted: the loop ends
StreamExhausted ==
    /\ s_pc = "await astream_log"
    /\ agent_stream = <<>>
    /\ after_loop
    /\ UNCHANGED <<agent_stream, final_state, client_connected, disconnect_detected,
                   full_agent_reply, all_tool_calls, error_message, scheduled_tasks,
                   inputs, pass, orchestrator>>

\* astream_log raises: except Exception, or except HTTPException: raise
StreamRaises ==
    /\ s_pc = "await astream_log"
    /\ agent_stream # <<>>
    /\ Head(agent_stream) \in {"Exception", "HTTPException"}
    /\ agent_stream' = Tail(agent_stream)
    /\ UNCHANGED <<final_state, client_connected, disconnect_detected,
                   full_agent_reply, all_tool_calls, agent_invocations, inputs, pass,
                   orchestrator>>
    /\ IF Head(agent_stream) = "Exception"
       THEN /\ except_yield_error
            /\ UNCHANGED scheduled_tasks
       ELSE /\ UNCHANGED <<error_message, events>>
            /\ finally_add_task

\* an event arrives and is_disconnected() is True: break
DisconnectSeen ==
    /\ s_pc = "await astream_log"
    /\ agent_stream # <<>>
    /\ Head(agent_stream) \in EventKinds
    /\ ~client_connected
    /\ disconnect_detected' = TRUE
    /\ after_loop
    /\ UNCHANGED <<agent_stream, final_state, client_connected, full_agent_reply,
                   all_tool_calls, error_message, scheduled_tasks, inputs, pass,
                   orchestrator>>

\* an event of a tool node that makes the body yield
ToolEvent ==
    /\ s_pc = "await astream_log"
    /\ agent_stream # <<>>
    /\ Head(agent_stream) \in {"tool invoking", "tool output", "tool invoking output"}
    /\ client_connected
    /\ agent_stream' = Tail(agent_stream)
    /\ IF Head(agent_stream) = "tool output"
       THEN /\ all_tool_calls' = Append(all_tool_calls, "AgentToolCall")
            /\ events' = Append(events, "tool_call_end")
            /\ s_pc' = "yield tool_call_end"
       ELSE /\ events' = Append(events, "tool_call_start")
            /\ s_pc' = IF Head(agent_stream) = "tool invoking"
                       THEN "yield tool_call_start"
                       ELSE "yield tool_call_start, end next"
            /\ UNCHANGED all_tool_calls
    /\ UNCHANGED <<final_state, client_connected, disconnect_detected,
                   full_agent_reply, error_message, agent_invocations,
                   scheduled_tasks, inputs, pass, orchestrator>>

\* an event of the agent:parser node, or an event of no interest
LlmEvent ==
    /\ s_pc = "await astream_log"
    /\ agent_stream # <<>>
    /\ Head(agent_stream) \in {"llm chunks", "llm message", "llm string", "other"}
    /\ client_connected
    /\ agent_stream' = Tail(agent_stream)
    /\ CASE Head(agent_stream) = "llm chunks" ->
                /\ full_agent_reply' = full_agent_reply \o chunk_content
                /\ events' = Append(events, "message_chunk")
                /\ s_pc' = "yield message_chunk"
         [] Head(agent_stream) = "llm message" ->
                /\ full_agent_reply' =
                       IF StrContains(full_agent_reply, message_content)
                       THEN full_agent_reply
                       ELSE full_agent_reply \o message_content
                /\ UNCHANGED <<events, s_pc>>
         [] Head(agent_stream) = "llm string" ->
                /\ full_agent_reply' =
                       IF StrContains(full_agent_reply, string_output)
                       THEN full_agent_reply
                       ELSE full_agent_reply \o string_output
                /\ UNCHANGED <<events, s_pc>>
         [] OTHER -> UNCHANGED <<full_agent_reply, events, s_pc>>
    /\ UNCHANGED <<final_state, client_connected, disconnect_detected,
                   all_tool_calls, error_message, agent_invocations, scheduled_tasks,
                   inputs, pass, orchestrator>>

\* ainvoke answers: the reply is taken from its final state, or it raises
InvokeAnswers ==
    /\ s_pc = "await ainvoke"
    /\ IF final_state = "Exception"
       THEN /\ except_yield_error
            /\ UNCHANGED full_agent_reply
       ELSE /\ full_agent_reply' =
                   CASE final_state = "dict" -> <<"ai message">>
                     [] final_state = "str" -> <<"final state">>
                     [] OTHER -> <<"Agent finished but no textual reply extracted from final state.">>
            /\ events' = Append(events, "final_response")
            /\ s_pc' = "yield final_response"
            /\ UNCHANGED error_message
    /\ UNCHANGED <<agent_stream, final_state, client_connected, disconnect_detected,
                   all_tool_calls, agent_invocations, scheduled_tasks, inputs, pass,
                   orchestrator>>

\* resumed at final_response: the stream_end event
YieldStreamEnd ==
    /\ s_pc = "yield final_response"
    /\ events' = Append(events, "stream_end")
    /\ s_pc' = "yield stream_end"
    /\ UNCHANGED <<agent_stream, final_state, client_connected, disconnect_detected,
                   full_agent_reply, all_tool_calls, error_message,
                   agent_invocations, scheduled_tasks, inputs, pass, orchestrator>>

\* resumed at stream_end or at the error event: the finally block, and the end
Finish ==
    /\ s_pc \in {"yield stream_end", "yield error"}
    /\ UNCHANGED <<error_message, events, full_agent_reply>>
    /\ finally_add_task
    /\ UNCHANGED <<agent_stream, final_state, client_connected, disconnect_detected,
                   all_tool_calls, agent_invocations, inputs, pass, orchestrator>>

\* the server gives the stream up after the client has gone: GeneratorExit is
\* thrown at the yield, or CancelledError at the await; neither is an
\* Exception, so only the finally block runs
Abandoned ==
    /\ s_pc \in YieldPoints \cup AwaitPoints
    /\ ~client_connected
    /\ UNCHANGED <<error_message, events, full_agent_reply>>
    /\ finally_add_task
    /\ UNCHANGED <<agent_stream, final_state, client_connected, disconnect_detected,
                   all_tool_calls, agent_invocations, inputs, pass, orchestrator>>

NextStream ==
    \/ ClientDisconnects
    \/ YieldStatus
    \/ AwaitNextEvent
    \/ YieldToolCallEnd
    \/ StreamExhausted
    \/ StreamRaises
    \/ DisconnectSeen
    \/ ToolEvent
    \/ LlmEvent
    \/ InvokeAnswers
    \/ YieldStreamEnd
    \/ Finish
    \/ Abandoned

StreamSpec == InitStream /\ [][NextStream]_vars

(***************************************************************************)
(* Properties of generate_recommendations.                                 *)
(***************************************************************************)
Done == pc = "done"

\* the pass scored every tool and reached the sort
LoopFinished == Done /\ tools_iterable /\ idx > Len(available_tools)

\* tool ids are the positions in the candidate list
ScoreOfTool(k, cosine) ==
    calculate_relevance_score(available_tools[k], user_context, cosine)

ResultIds == {result[p].tool_id : p \in 1..Len(result)}

\* C1: every returned Recommendation has its relevance_score in [0, 1].
C1_RelevanceInUnitInterval ==
    Done => \A p \in 1..Len(result) :
                /\ result[p].relevance_score >= 0
                /\ result[p].relevance_score <= ScoreOne

\* C2: every returned Recommendation has confidence = min(1.2 * relevance_score, 1.0),
\* confidence in [0, 1] and confidence >= relevance_score.
C2_ConfidenceDerived ==
    Done => \A p \in 1..Len(result) :
                /\ 10 * result[p].confidence
                       = Min(12 * result[p].relevance_score, 10 * ScoreOne)
                /\ result[p].confidence >= 0
                /\ result[p].confidence <= ScoreOne
                /\ result[p].confidence >= result[p].relevance_score

\* C3: the returned list is in descending order of relevance_score:
\* for all positions i < j, result[i].relevance_score >= result[j].relevance_score.
C3_SortedDescending ==
    Done => \A i, j \in 1..Len(result) :
                i < j => result[i].relevance_score >= result[j].relevance_score

\* a returned list whose first two entries were scored in the opposite order
C3_Witness ==
    /\ Done
    /\ Len(result) >= 2
    /\ result[1].relevance_score > result[2].relevance_score
    /\ result[1].tool_id > result[2].tool_id

\* C4: for a candidate list of N tools the result has exactly min(10, N) entries,
\* and they are the min(10, N) highest-scoring tools of the input.
C4_TopTenOfInput ==
    Done /\ tools_iterable =>
        /\ Len(result) = Min(TopN, Len(available_tools))
        /\ ResultIds \subseteq 1..Len(available_tools)
        /\ Cardinality(ResultIds) = Len(result)
        /\ \A p \in 1..Len(result) :
               result[p].relevance_score
                   = ScoreOfTool(result[p].tool_id, tool_embed[result[p].tool_id].cosine)
        /\ \A p \in 1..Len(result) : \A k \in (1..Len(available_tools)) \ ResultIds :
               result[p].relevance_score >= ScoreOfTool(k, tool_embed[k].cosine)

\* C5: tools with equal relevance_score keep the relative order of the candidate
\* list, in the result and across the top-10 cut: a tool left out never precedes,
\* in the candidate list, a returned tool with the same score.
C5_StableTies ==
    Done =>
        /\ \A i, j \in 1..Len(result) :
               i < j /\ result[i].relevance_score = result[j].relevance_score
                   => result[i].tool_id < result[j].tool_id
        /\ \A p \in 1..Len(result) : \A q \in 1..Len(recommendations) :
               /\ recommendations[q].tool_id \notin ResultIds
               /\ recommendations[q].relevance_score = result[p].relevance_score
               => result[p].tool_id < recommendations[q].tool_id

\* a tie inside the result and a tie across the cut
C5_Witness ==
    /\ Done
    /\ Len(available_tools) > TopN
    /\ Len(result) = TopN
    /\ result[TopN - 1].relevance_score = result[TopN].relevance_score
    /\ \E q \in 1..Len(recommendations) :
           /\ recommendations[q].tool_id \notin ResultIds
           /\ recommendations[q].relevance_score = result[TopN].relevance_score
           /\ \E p \in 1..Len(result) : result[p].tool_id > recommendations[q].tool_id

\* the tools whose encode(tool_profile) raises
FailingEmbeds == {k \in 1..Len(available_tools) : ~tool_embed[k].ok}

\* the list a pass would return if a failed embedding counted as similarity 0
DegradedRanking(user_ok) ==
    top_slice(sort_by_relevance_reverse(
        [k \in 1..Len(available_tools) |->
            Recommendation(available_tools[k], user_context,
                           IF user_ok /\ tool_embed[k].ok THEN tool_embed[k].cosine ELSE 0,
                           llm_reply[k])]))

SameIdsAndScores(got, want) ==
    /\ Len(got) = Len(want)
    /\ \A p \in 1..Len(got) :
           /\ got[p].tool_id = want[p].tool_id
           /\ got[p].relevance_score = want[p].relevance_score

\* C6: when the embedding fails for exactly one tool of the batch, that tool is
\* still returned, scored with semantic term 0, and the other tools' scores and
\* the membership of the result are what they would be without the failure.
C6_EmbeddingFailureIsolated ==
    Done /\ tools_iterable /\ user_embed_ok /\ Cardinality(FailingEmbeds) = 1
        => SameIdsAndScores(result, DegradedRanking(TRUE))

\* C7: when the user-profile embedding cannot be computed, the pass still
\* returns min(10, N) ranked recommendations scored with semantic term 0.
C7_UserEmbeddingFailureDegrades ==
    Done /\ tools_iterable /\ ~user_embed_ok /\ FailingEmbeds = {}
        => /\ Len(result) = Min(TopN, Len(available_tools))
           /\ SameIdsAndScores(result, DegradedRanking(FALSE))

\* C8: whatever the embedding and text-generation collaborators do, the pass
\* ends by returning a list and never raises to its caller: no state raises,
\* a finished pass has returned, and every step before that moves the pass on
\* (to the loop, to the next tool, or to the return).
C8_NeverRaises ==
    /\ [](/\ outcome # "raised"
          /\ Done => outcome = "returned"
          /\ ~Done => /\ outcome = "running"
                      /\ pc \in {"start", "loop"}
                      /\ idx <= Len(available_tools) + 1)
    /\ [][\/ pc = "start" /\ pc' \in {"loop", "done"}
          \/ pc = "loop" /\ pc' = "loop" /\ idx' = idx + 1
          \/ pc = "loop" /\ pc' = "done"]_vars

\* a pass in which a text generation and then an embedding failed, and returned
C8_Witness ==
    /\ Done
    /\ outcome = "returned"
    /\ \E k \in 1..Len(llm_calls) : ~llm_reply[llm_calls[k]].ok
    /\ idx \in FailingEmbeds

\* C9: a candidate_tools that is not iterable is propagated to the caller as a
\* failure and is not turned into an empty recommendation list.
C9_NotIterablePropagates ==
    Done /\ ~tools_iterable /\ user_embed_ok => outcome = "raised"

\* C10: in one pass the text-generation collaborator is invoked at most 3
\* times, and only for tools in the top 3 positions of the returned list
\* (the second part read on the passes that scored every tool).
C10_AtMostThreeExplanations ==
    /\ Len(llm_calls) <= 3
    /\ LoopFinished =>
           \A c \in 1..Len(llm_calls) :
               \E p \in 1..Min(3, Len(result)) : result[p].tool_id = llm_calls[c]

(***************************************************************************)
(* Properties of the explanation, the coercions and the scoring functions. *)
(***************************************************************************)
\* the Recommendation built for the tool with this id
RecOf(id) ==
    recommendations[CHOOSE q \in 1..Len(recommendations) :
                        recommendations[q].tool_id = id]

KnownLevels == {"beginner", "intermediate", "advanced"}

AsBeginner(uc) == [uc EXCEPT !.skill_level = "beginner"]

Clamped(uc) ==
    [uc EXCEPT !.productivity_score = Max(0, Min(100, uc.productivity_score))]

\* C11: when text generation fails for a tool, its reasoning is exactly
\* "Recommended based on relevance to your {work_domain} work and {skill_level}
\* skill level.", the recommendation is still there and its other fields are
\* what they are when text generation succeeds.
C11_FallbackReasoning ==
    LoopFinished =>
        /\ Len(recommendations) = Len(available_tools)
        /\ \A k \in 1..Len(available_tools) :
               ~llm_reply[k].ok =>
                   /\ RecOf(k).reasoning =
                          <<"Recommended based on relevance to your ">>
                              \o user_context.work_domain
                              \o <<" work and ", user_context.skill_level,
                                   " skill level.">>
                   /\ [RecOf(k) EXCEPT !.reasoning = <<>>] =
                          [Recommendation(available_tools[k], user_context,
                                          tool_embed[k].cosine,
                                          [ok |-> TRUE, text |-> <<"o", "k">>])
                              EXCEPT !.reasoning = <<>>]
                   /\ \E q \in 1..Len(recommendations) : recommendations[q].tool_id = k
                   /\ result = top_slice(recommendations)

\* a returned recommendation whose text generation failed, for a named domain
C11_Witness ==
    /\ LoopFinished
    /\ StrSplit(user_context.work_domain) # <<>>
    /\ \E p \in 1..Len(result) : ~llm_reply[result[p].tool_id].ok

\* C12: every returned Recommendation has a non-empty reasoning, whatever the
\* text generation did (failure, or any text, empty or blank included).
C12_ReasoningNeverEmpty ==
    Done => \A p \in 1..Len(result) : result[p].reasoning # <<>>

\* C13: an unknown skill_level counts as beginner: skill_match,
\* implementation_complexity and learning_time_hours are those of beginner.
C13_UnknownSkillIsBeginner ==
    LoopFinished /\ user_context.skill_level \notin KnownLevels =>
        \A k \in 1..Len(available_tools) :
            /\ factors[k].skill_match =
                   calculate_skill_match(available_tools[k], AsBeginner(user_context))
            /\ RecOf(k).implementation_complexity =
                   calculate_implementation_complexity(available_tools[k],
                                                       AsBeginner(user_context))
            /\ RecOf(k).learning_time_hours =
                   estimate_learning_time(available_tools[k], AsBeginner(user_context))

\* C14: an out-of-range productivity_score is clamped to [0, 1] before use:
\* the profile string and expected_impact are those of the clamped score.
C14_ProductivityClamped ==
    /\ pc # "start" =>
           user_profile = create_user_profile(Clamped(user_context), pattern_insights)
    /\ LoopFinished =>
           \A k \in 1..Len(available_tools) :
               RecOf(k).expected_impact =
                   predict_impact(available_tools[k], Clamped(user_context))

C16_EmptyCatalog ==
    Done /\ tools_iterable /\ available_tools = <<>> =>
        /\ result = <<>>
        /\ outcome = "returned"
        /\ llm_calls = <<>>

\* an empty candidate list that went through the sort
C16_Witness ==
    /\ LoopFinished
    /\ available_tools = <<>>
    /\ user_embed_ok
    /\ outcome = "returned"

\* C17: relevance = min(0.30 * semantic_similarity + 0.25 * skill_match
\* + 0.25 * domain_relevance + 0.20 * tool_compatibility, 1.0), with
\* tool_compatibility = 0.7; the weights sum to 1.0; the semantic term is the
\* cosine as it is, so a negative one lowers the sum.
C17_WeightedSum ==
    LoopFinished =>
        \A k \in 1..Len(available_tools) :
            LET f == factors[k]
                others == 25 * f.skill_match + 25 * f.domain_relevance
                              + 20 * f.tool_compatibility
            IN  /\ 30 + 25 + 25 + 20 = 100
                /\ 10 * f.tool_compatibility = 7 * One
                /\ f.semantic_similarity = tool_embed[k].cosine
                /\ 100 * RecOf(k).relevance_score =
                       Min(WeightOne * (30 * f.semantic_similarity + others),
                           100 * ScoreOne)
                /\ f.semantic_similarity < 0 =>
                       100 * RecOf(k).relevance_score < WeightOne * others

\* a scored tool whose cosine is negative
C17_Witness ==
    /\ LoopFinished
    /\ \E k \in 1..Len(available_tools) : factors[k].semantic_similarity < 0

\* C18: for the nine pairs of user skill_level and tool difficulty_level,
\* skill_match is 1.0 when the tool is one rank above the user, 0.8 when
\* equal, 0.6 when one rank below, 0.3 otherwise.
C18_SkillMatchTable ==
    \A k \in 1..Len(factors) :
        LET rank == [l \in KnownLevels |->
                        IF l = "beginner" THEN 1 ELSE IF l = "intermediate" THEN 2 ELSE 3]
            user == user_context.skill_level
            tool == available_tools[k].difficulty_level
        IN  user \in KnownLevels /\ tool \in KnownLevels =>
                /\ rank[tool] - rank[user] = 1 => 10 * factors[k].skill_match = 10 * One
                /\ rank[tool] - rank[user] = 0 => 10 * factors[k].skill_match = 8 * One
                /\ rank[tool] - rank[user] = -1 => 10 * factors[k].skill_match = 6 * One
                /\ rank[tool] - rank[user] \notin {-1, 0, 1} =>
                       10 * factors[k].skill_match = 3 * One

\* an intermediate user and an advanced tool: 1.0
C18_Witness ==
    /\ Len(factors) >= 1
    /\ user_context.skill_level = "intermediate"
    /\ available_tools[1].difficulty_level = "advanced"
    /\ factors[1].skill_match = One

\* C19: domain_relevance = (number of lowercase whitespace-delimited tokens of
\* work_domain that occur in the lowercased category + ' ' + joined use_cases)
\* / (number of tokens), capped at 1.0; 0.5 when there is no token; in [0, 1].
C19_DomainRelevance ==
    \A k \in 1..Len(factors) :
        LET tokens == StrSplit(StrLower(user_context.work_domain))
            text == StrLower(available_tools[k].category) \o <<" ">>
                        \o StrLower(StrJoin(<<" ">>, available_tools[k].use_cases))
            hits == Cardinality({n \in 1..Len(tokens) : StrContains(text, tokens[n])})
            d == factors[k].domain_relevance
        IN  /\ d >= 0 /\ d <= One
            /\ Len(tokens) = 0 => 2 * d = One
            /\ Len(tokens) > 0 => d * Len(tokens) = Min(hits, Len(tokens)) * One

\* a blank work_domain: 0.5
C19_Witness ==
    /\ Len(factors) >= 1
    /\ user_context.work_domain = <<" ">>
    /\ 2 * factors[1].domain_relevance = One

\* C20: expected_impact is "High" exactly when productivity_score < 0.6 and
\* user_rating > 4.5, otherwise "Medium" exactly when productivity_score < 0.8,
\* otherwise "Low"; nothing else is produced.
C20_ImpactTiers ==
    LoopFinished =>
        \A k \in 1..Len(available_tools) :
            LET high == user_context.productivity_score < 60
                            /\ available_tools[k].user_rating > 45
                medium == ~high /\ user_context.productivity_score < 80
                impact == RecOf(k).expected_impact
            IN  /\ impact \in {"High", "Medium", "Low"}
                /\ impact = "High" <=> high
                /\ impact = "Medium" <=> medium
                /\ impact = "Low" <=> ~high /\ ~medium

\* productivity_score exactly 0.6 with a rating above 4.5: "Medium"
C20_Witness ==
    /\ LoopFinished
    /\ Len(available_tools) >= 1
    /\ user_context.productivity_score = 60
    /\ available_tools[1].user_rating > 45
    /\ RecOf(1).expected_impact = "Medium"

\* C21: implementation_complexity is integration_complexity plus the skill
\* adjustment (beginner +1, intermediate 0, advanced -1) clamped to [1, 5]: an
\* integer in [1, 5] for every integration_complexity, outside 1..5 included.
C21_ComplexityClamped ==
    LoopFinished =>
        \A k \in 1..Len(available_tools) :
            LET c == RecOf(k).implementation_complexity
                user == user_context.skill_level
                raw == available_tools[k].integration_complexity
                           + (IF user = "beginner" THEN 1
                              ELSE IF user = "advanced" THEN -1 ELSE 0)
            IN  /\ c \in 1..5
                /\ user \in KnownLevels =>
                       /\ raw < 1 => c = 1
                       /\ raw > 5 => c = 5
                       /\ raw \in 1..5 => c = raw

\* an advanced user and a tool of integration_complexity 0: clamped up to 1
C21_Witness ==
    /\ LoopFinished
    /\ Len(available_tools) >= 1
    /\ user_context.skill_level = "advanced"
    /\ available_tools[1].integration_complexity = 0
    /\ RecOf(1).implementation_complexity = 1

\* C22: learning_time_hours = floor(base_hours * multiplier), base_hours 8/4/2
\* for the user's skill and multiplier 1.0/1.5/2.0 for the tool's difficulty
\* (beginner/intermediate/advanced); a non-negative integer for the nine pairs.
C22_LearningTime ==
    LoopFinished =>
        \A k \in 1..Len(available_tools) :
            LET user == user_context.skill_level
                tool == available_tools[k].difficulty_level
                base_hours == IF user = "beginner" THEN 8
                              ELSE IF user = "intermediate" THEN 4 ELSE 2
                halves == IF tool = "beginner" THEN 2
                          ELSE IF tool = "intermediate" THEN 3 ELSE 4
                hours == RecOf(k).learning_time_hours
            IN  user \in KnownLevels /\ tool \in KnownLevels =>
                    /\ hours \in Nat
                    /\ 2 * hours <= base_hours * halves
                    /\ base_hours * halves < 2 * (hours + 1)

\* an advanced user and an intermediate tool: floor(2 * 1.5) = 3
C22_Witness ==
    /\ LoopFinished
    /\ Len(available_tools) >= 1
    /\ user_context.skill_level = "advanced"
    /\ available_tools[1].difficulty_level = "intermediate"
    /\ RecOf(1).learning_time_hours = 3

\* C23: the stages follow COLLECTING, SCORING, SORTING, TRUNCATING, EXPLAINING,
\* DONE: no text-generation call is issued before every candidate tool has
\* been scored and the list has been sorted and truncated.
C23_ExplainAfterTruncate ==
    llm_calls # <<>> =>
        /\ idx > Len(available_tools)
        /\ pc = "done"

\* C25: in one call the user-profile string is embedded exactly once, before
\* any tool is scored, and the embedding obtained is the one in use, unchanged,
\* for every tool of the batch.
C25_UserEmbeddedOnce ==
    /\ [](pc # "start" =>
            /\ Len(encode_calls) >= 1
            /\ encode_calls[1] = "user_profile"
            /\ \A n \in 2..Len(encode_calls) : encode_calls[n] = "tool_profile"
            /\ Len(encode_calls) > 1 => user_embedding = [encode_call |-> 1])
    /\ [][pc = "loop" => user_embedding' = user_embedding]_vars

\* a finished pass over two tools: three encode calls
C25_Witness ==
    /\ LoopFinished
    /\ Len(available_tools) = 2
    /\ encode_calls = <<"user_profile", "tool_profile", "tool_profile">>

\* C27: when a text-generation call is cancelled while in flight, the reasoning
\* of that recommendation is the fallback string and the pass finishes: the
\* cancellation does not abort the pass.
C27_CancelledExplanationFallsBack ==
    Done /\ cancel_at # 0 /\ user_embed_ok /\ FailingEmbeds = {} =>
        /\ outcome = "returned"
        /\ Len(recommendations) = Len(available_tools)
        /\ RecOf(cancel_at).reasoning = FallbackReasoning(user_context)

(***************************************************************************)
(* Properties of analyze_user_and_recommend.                               *)
(***************************************************************************)
\* C24: pattern analysis and tool discovery are started together, and scoring
\* begins only after both have completed, whichever finishes first; scoring
\* receives both results.
C24_ScoringAfterBothTasks ==
    /\ pattern_task.state = "unstarted" <=> discovery_task.state = "unstarted"
    /\ pc # "not called" =>
           /\ pattern_task.state = "done"
           /\ discovery_task.state = "done"
           /\ pattern_insights = pattern_task.result
           /\ available_tools = ToolsOf(discovery_task.result)

\* scoring under way after tool discovery finished first and pattern analysis last
C24_Witness ==
    /\ pc = "loop"
    /\ pattern_task.state = "done"
    /\ pattern_task.last
    /\ ~discovery_task.last
    /\ Len(recommendations) >= 1

\* C26: after ranking, one learning path per recommendation of the first
\* min(5, K) and one implementation guide per recommendation of the first
\* min(3, K), in ranked order; an item whose LLM call failed is an error-tagged
\* fallback with that recommendation's tool_id, and the other items are there.
C26_PathsAndGuides ==
    o_pc = "done" =>
        /\ Len(learning_paths) = Min(5, Len(result))
        /\ Len(implementation_guides) = Min(3, Len(result))
        /\ \A p \in 1..Len(learning_paths) :
               IF "error" \in DOMAIN learning_paths[p]
               THEN learning_paths[p].tool_id = result[p].tool_id
               ELSE learning_paths[p].prompt_tool_id = result[p].tool_id
        /\ \A p \in 1..Len(implementation_guides) :
               implementation_guides[p].tool_id = result[p].tool_id

\* six recommendations; the first learning path and the first guide are
\* fallbacks and the items after them are not
C26_Witness ==
    /\ o_pc = "done"
    /\ Len(result) = 6
    /\ Len(learning_paths) = 5
    /\ Len(implementation_guides) = 3
    /\ "error" \in DOMAIN learning_paths[1]
    /\ "error" \notin DOMAIN learning_paths[2]
    /\ "error" \in DOMAIN implementation_guides[1]
    /\ "error" \notin DOMAIN implementation_guides[3]

HexDigits == {Digits[k] : k \in 1..Len(Digits)} \cup {"a", "b", "c", "d", "e", "f"}

\* C28: sanitization runs before any other agent; pattern analysis, tool
\* discovery, the recommendation engine, the learning paths and the guides get
\* the sanitized context only (hashed user_id, activity_patterns without
\* personal_info / sensitive_data / private_urls, preferences within the safe
\* keys, no goal with a sensitive keyword); the caller's UserContext is left
\* unchanged.
C28_AgentsGetSanitizedContext ==
    /\ [](/\ agent_log # <<>> => o_pc \notin {"sanitize", "none"}
          /\ o_pc = "done" =>
                 {agent_log[n].agent : n \in 1..Len(agent_log)} =
                     {"analyze_patterns", "discover_relevant_tools",
                      "generate_recommendations", "create_learning_paths",
                      "generate_guides"}
          /\ pc \in {"start", "loop", "done"} => user_context = sanitized_context
          /\ \A n \in 1..Len(agent_log) :
                 LET given == agent_log[n].context
                 IN  /\ given = sanitized_context
                     /\ given # original_context
                     /\ Len(given.user_id) = 16
                     /\ \A k \in 1..16 : given.user_id[k] \in HexDigits
                     /\ DOMAIN given.activity_patterns =
                            DOMAIN original_context.activity_patterns
                                \ {"personal_info", "sensitive_data", "private_urls"}
                     /\ DOMAIN given.preferences \subseteq
                            {"theme", "notifications", "learning_style",
                             "difficulty_preference"}
                     /\ \A g \in 1..Len(given.goals) :
                            \A w \in { <<"s", "a", "l", "a", "r", "y">>,
                                       <<"p", "e", "r", "s", "o", "n", "a", "l">>,
                                       <<"c", "o", "n", "f", "i", "d", "e", "n", "t",
                                         "i", "a", "l">>,
                                       <<"p", "r", "i", "v", "a", "t", "e">> } :
                                ~StrContains(StrLower(given.goals[g]), w))
    /\ [][original_context' = original_context]_vars

\* a finished run for a caller whose context held every kind of sensitive item
C28_Witness ==
    /\ o_pc = "done"
    /\ Len(agent_log) = 5
    /\ "personal_info" \in DOMAIN original_context.activity_patterns
    /\ "email" \in DOMAIN original_context.preferences
    /\ Len(original_context.goals) = 3
    /\ Len(sanitized_context.goals) = 1

C30_NothingAfterDisconnect ==
    disconnect_detected =>
        /\ \A n \in 1..Len(agent_invocations) : agent_invocations[n] # "ainvoke"
        /\ \A n \in 1..Len(events) : events[n] \notin {"final_response", "stream_end"}

====
